---- MODULE Spec2Model ----
(***************************************************************************)
(* Cloth simulation host (src/src/instances_app.rs): the topology          *)
(* generator (generate_grid, generate_springs), the ping/pong particle     *)
(* buffers with their two bind groups, and the step scheduler in           *)
(* InstanceApp::update together with InstanceApp::render.                  *)
(*                                                                         *)
(* Conventions                                                             *)
(*  - Rust arrays of length two (instance_buffer, bind_group) are          *)
(*    functions on {0, 1}, so the indices are the source's.                *)
(*  - Vec<T> is a TLA+ sequence: element i of the Vec is at position i+1.  *)
(*  - Particle coordinates are stored doubled (units of half a length      *)
(*    unit), so that `cols as f32 / 2.0` stays an exact integer.           *)
(*  - A rest length is the pair [scale, root] standing for                 *)
(*    scale * sqrt(root); `spacing * 2.0_f32.sqrt()` is [spacing, 2].      *)
(*  - u32 arithmetic wraps modulo U32Modulus when overflow checks are off  *)
(*    (release build) and panics when they are on (debug build).           *)
(*  - The wall clock is discrete; Instant::now() reads the variable now.   *)
(***************************************************************************)
EXTENDS Integers, Sequences, FiniteSets, TLC

(***************************************************************************)
(* Bounds of the model                                                     *)
(***************************************************************************)
MaxGrid == 5
MaxWorkgroup == 2
MaxSpacing == 2
MaxTime == 9
MaxPollDelay == 1
GenerationInterval == 3

(***************************************************************************)
(* Program constants                                                       *)
(***************************************************************************)
WORKGROUP_SIZE == 64
GRID_SIZE == 64
structural_stiffness == 1000
shear_stiffness == 800
bend_stiffness == 500
\* capacity of DebugData::spring_forces
MaxDebugSprings == 32
\* the displacement passed to generate_grid by InstanceApp::new (1.0)
Displacement == 1

\* The modulus of wrapping u32 arithmetic.  The model checker's integers
\* are 32-bit signed, so 2^30 stands for 2^32: every grid of the model is
\* far smaller, and the only wrap that occurs is grid_size - k below zero,
\* which yields a value above every row and column index in both cases.
U32Modulus == 2^30

Builds == {"debug", "release"}

\* a - b on u32 with overflow checks off
WrappingSub(a, b) == (a - b) % U32Modulus

\* a - b on u32 with overflow checks on panics exactly when a < b
CheckedSubPanics(a, b) == a < b

(***************************************************************************)
(* generate_springs                                                        *)
(***************************************************************************)
Spring(a, b, rest, k) ==
    [instance_a |-> a, instance_b |-> b, rest_length |-> rest, stiffness |-> k]

structural_rest(spacing) == [scale |-> spacing, root |-> 1]
\* Variant: the diagonal factor is left out
shear_rest_without_root(spacing) == [scale |-> spacing, root |-> 1]

shear_rest(spacing) == [scale |-> spacing, root |-> 2]
bend_rest(spacing) == [scale |-> spacing * 2, root |-> 1]

Current(row, col, grid_size) == row * grid_size + col

HorizontalStructural(row, col, grid_size, spacing) ==
    IF col < WrappingSub(grid_size, 1)
    THEN << Spring(Current(row, col, grid_size),
                   Current(row, col, grid_size) + 1,
                   structural_rest(spacing), structural_stiffness) >>
    ELSE << >>

VerticalStructural(row, col, grid_size, spacing) ==
    IF row < WrappingSub(grid_size, 1)
    THEN << Spring(Current(row, col, grid_size),
                   Current(row, col, grid_size) + grid_size,
                   structural_rest(spacing), structural_stiffness) >>
    ELSE << >>

\* Variant: the down-left diagonal is pushed from its lower end
ShearPairReversed(row, col, grid_size, spacing) ==
    IF row < WrappingSub(grid_size, 1) /\ col < WrappingSub(grid_size, 1)
    THEN << Spring(Current(row, col, grid_size),
                   Current(row, col, grid_size) + grid_size + 1,
                   shear_rest(spacing), shear_stiffness),
            Spring(Current(row, col, grid_size) + grid_size,
                   Current(row, col, grid_size) + 1,
                   shear_rest(spacing), shear_stiffness) >>
    ELSE << >>

ShearPair(row, col, grid_size, spacing) ==
    IF row < WrappingSub(grid_size, 1) /\ col < WrappingSub(grid_size, 1)
    THEN << Spring(Current(row, col, grid_size),
                   Current(row, col, grid_size) + grid_size + 1,
                   shear_rest(spacing), shear_stiffness),
            Spring(Current(row, col, grid_size) + 1,
                   Current(row, col, grid_size) + grid_size,
                   shear_rest(spacing), shear_stiffness) >>
    ELSE << >>

\* Variant: the horizontal bend guard reuses the structural guard
HorizontalBendOffByOne(row, col, grid_size, spacing) ==
    IF col < WrappingSub(grid_size, 1)
    THEN << Spring(Current(row, col, grid_size),
                   Current(row, col, grid_size) + 2,
                   bend_rest(spacing), bend_stiffness) >>
    ELSE << >>

HorizontalBend(row, col, grid_size, spacing) ==
    IF col < WrappingSub(grid_size, 2)
    THEN << Spring(Current(row, col, grid_size),
                   Current(row, col, grid_size) + 2,
                   bend_rest(spacing), bend_stiffness) >>
    ELSE << >>

VerticalBend(row, col, grid_size, spacing) ==
    IF row < WrappingSub(grid_size, 2)
    THEN << Spring(Current(row, col, grid_size),
                   Current(row, col, grid_size) + (grid_size * 2),
                   bend_rest(spacing), bend_stiffness) >>
    ELSE << >>

\* Variant: the structural pushes of generate_structural_springs are kept
\* in the loop next to those of generate_springs
CellSpringsStructuralTwice(row, col, grid_size, spacing) ==
    HorizontalStructural(row, col, grid_size, spacing)
    \o VerticalStructural(row, col, grid_size, spacing)
    \o HorizontalStructural(row, col, grid_size, spacing)
    \o VerticalStructural(row, col, grid_size, spacing)
    \o ShearPair(row, col, grid_size, spacing)
    \o HorizontalBend(row, col, grid_size, spacing)
    \o VerticalBend(row, col, grid_size, spacing)

\* the pushes of one iteration of the inner loop, in source order
CellSprings(row, col, grid_size, spacing) ==
    HorizontalStructural(row, col, grid_size, spacing)
    \o VerticalStructural(row, col, grid_size, spacing)
    \o ShearPair(row, col, grid_size, spacing)
    \o HorizontalBend(row, col, grid_size, spacing)
    \o VerticalBend(row, col, grid_size, spacing)

RECURSIVE ColLoop(_, _, _, _)
\* for col in from..grid_size, within one row
ColLoop(row, from, grid_size, spacing) ==
    IF from >= grid_size THEN << >>
    ELSE CellSprings(row, from, grid_size, spacing)
         \o ColLoop(row, from + 1, grid_size, spacing)

RECURSIVE RowLoop(_, _, _)
\* for row in from..grid_size
RowLoop(from, grid_size, spacing) ==
    IF from >= grid_size THEN << >>
    ELSE ColLoop(from, 0, grid_size, spacing)
         \o RowLoop(from + 1, grid_size, spacing)

\* the Vec returned when the function returns
generate_springs(grid_size, spacing) == RowLoop(0, grid_size, spacing)

\* With overflow checks on, grid_size - 1 and grid_size - 2 are evaluated in
\* the first loop iteration and again in the final println!.
generate_springs_panics(grid_size, build) ==
    /\ build = "debug"
    /\ \/ CheckedSubPanics(grid_size, 1)
       \/ CheckedSubPanics(grid_size, 2)

(***************************************************************************)
(* generate_grid                                                           *)
(***************************************************************************)
Instance(row, col, rows, cols, spacing, displacement) ==
    [position |-> << (2 * col - cols) * spacing,
                     2 * displacement,
                     (2 * row - rows) * spacing,
                     0 >>,
     speed |-> << 0, 0, 0, 0 >>]

\* (0..cols).map(move |col| Instance {..})
GridRow(row, rows, cols, spacing, displacement) ==
    [c \in 1..cols |-> Instance(row, c - 1, rows, cols, spacing, displacement)]

RECURSIVE FlatMapRows(_, _, _, _, _)
\* (from..rows).flat_map(|row| ..).collect()
FlatMapRows(from, rows, cols, spacing, displacement) ==
    IF from >= rows THEN << >>
    ELSE GridRow(from, rows, cols, spacing, displacement)
         \o FlatMapRows(from + 1, rows, cols, spacing, displacement)

\* Variant: the copy is taken before the last particle is collected
CloneAllButLast(instances) == SubSeq(instances, 1, Len(instances) - 1)

\* instances.clone()
CloneInstances(instances) == instances

\* the two particle Vecs of the returned tuple
generate_grid(rows, cols, spacing, displacement) ==
    LET instances == FlatMapRows(0, rows, cols, spacing, displacement)
    IN  [instances |-> instances, instances_copy |-> CloneInstances(instances)]

(***************************************************************************)
(* State                                                                   *)
(***************************************************************************)
VARIABLES
    \* construction-time configuration
    grid_size,            \* GRID_SIZE
    workgroup_size,       \* WORKGROUP_SIZE
    spacing,              \* the spacing literal passed to both generators
    displacement,         \* the displacement literal passed to generate_grid
    build,                \* overflow checks on ("debug") or off ("release")
    diagnostics_enabled,  \* the diagnostics setting of the design notes
    \* InstanceApp
    status,               \* "running" once new has returned, else "panicked"
    num_instances,
    springs,              \* contents of spring_buffer
    sim_params,           \* contents of sim_params_buffer
    initial_contents,     \* buffer id -> contents given to create_buffer_init
    instance_buffer,      \* {0,1} -> buffer id
    bind_group,           \* {0,1} -> [binding0, binding1] buffer ids
    generation_duration,
    last_generation,
    \* device and host memory
    written_by,           \* buffer id -> per slot, the tick that wrote it (0: upload)
    debug_buffer,         \* tick whose kernel wrote the diagnostic record
    debug_data,           \* tick of the record the host read last
    \* environment and history
    now,                  \* the monotonic clock
    dispatches,           \* number of kernel dispatches submitted so far
    last_update,          \* the most recent update call
    last_tick,            \* the most recent tick performed by update
    spaced,               \* every gap between update calls was below the interval
    render_source         \* buffer bound as instance data by the last render

vars == << grid_size, workgroup_size, spacing, displacement, build,
           diagnostics_enabled, status, num_instances, springs, sim_params,
           initial_contents, instance_buffer, bind_group, generation_duration,
           last_generation, written_by, debug_buffer, debug_data, now,
           dispatches, last_update, last_tick, spaced, render_source >>

config_vars == << grid_size, workgroup_size, spacing, displacement, build,
                  diagnostics_enabled >>

BufferIds == {"ping", "pong"}

\* (grid size, workgroup size) pairs of the model
Configs == (1..MaxGrid) \X (1..MaxWorkgroup)

(***************************************************************************)
(* InstanceApp::new                                                        *)
(***************************************************************************)
\* the two buffers created from instances and instances_copy
NewInstanceBuffers == [i \in {0, 1} |-> IF i = 0 THEN "ping" ELSE "pong"]

NewInitialContents(grid) ==
    [b \in BufferIds |-> IF b = "ping" THEN grid.instances
                                       ELSE grid.instances_copy]

\* Variant: the pong group names instance_buffer[1] for both bindings
NewBindGroupsPongSelf(ib) ==
    [i \in {0, 1} |->
        IF i = 0 THEN [binding0 |-> ib[0], binding1 |-> ib[1]]
                 ELSE [binding0 |-> ib[1], binding1 |-> ib[1]]]

\* binding 0 and binding 1 of "Bind Group Ping" and "Bind Group Pong"
NewBindGroups(ib) ==
    [i \in {0, 1} |->
        IF i = 0 THEN [binding0 |-> ib[0], binding1 |-> ib[1]]
                 ELSE [binding0 |-> ib[1], binding1 |-> ib[0]]]

\* SimParams { delta_time: 0.001, damping: 0.05, mass: 1.0 }, in thousandths
NewSimParams == [delta_time |-> 1, damping |-> 50, mass |-> 1000]

NoUpdate == [call |-> 0, returned |-> 0, elapsed |-> 0, dispatched |-> 0]

NoTick == [events |-> << >>, groups |-> 0, read |-> "none", write |-> "none",
           current_before |-> "none", slot_writes |-> << >>]

Init ==
    /\ \E c \in Configs : grid_size = c[1] /\ workgroup_size = c[2]
    /\ spacing \in 1..MaxSpacing
    /\ displacement = Displacement
    /\ build \in Builds
    /\ diagnostics_enabled \in BOOLEAN
    /\ LET grid == generate_grid(grid_size, grid_size, spacing, displacement)
           panics == generate_springs_panics(grid_size, build)
       IN  /\ status = IF panics THEN "panicked" ELSE "running"
           /\ num_instances = Len(grid.instances)
           /\ springs = IF panics THEN << >>
                        ELSE generate_springs(grid_size, spacing)
           /\ initial_contents = NewInitialContents(grid)
           /\ written_by = [b \in BufferIds |->
                               [i \in 1..Len(grid.instances) |-> 0]]
    /\ sim_params = NewSimParams
    /\ instance_buffer = NewInstanceBuffers
    /\ bind_group = NewBindGroups(NewInstanceBuffers)
    /\ generation_duration = GenerationInterval
    /\ now = 0
    /\ last_generation = 0
    /\ debug_buffer = 0
    /\ debug_data = 0
    /\ dispatches = 0
    /\ last_update = NoUpdate
    /\ last_tick = NoTick
    /\ spaced = TRUE
    /\ render_source = "none"

(***************************************************************************)
(* The update kernel (compute.wgsl), one invocation per global id          *)
(***************************************************************************)
\* global ids 0 .. invocations-1 run; invocation i writes slot i of the
\* output array when the slot exists
KernelWrite(old, invocations, tick) ==
    [i \in 1..Len(old) |-> IF i - 1 < invocations THEN tick ELSE old[i]]

\* how many invocations wrote each slot of the output array
KernelSlotWrites(slots, invocations) ==
    [i \in 1..slots |-> IF i - 1 < invocations THEN 1 ELSE 0]

\* invocation 0 writes the diagnostic record
KernelDebug(old, invocations, tick) == IF invocations > 0 THEN tick ELSE old

(***************************************************************************)
(* InstanceApp::update                                                     *)
(***************************************************************************)
\* Variant: the interval test is not strict
IntervalElapsedInclusive(t) == last_generation + generation_duration <= t

\* self.last_generation + self.generation_duration < Instant::now()
IntervalElapsed(t) == last_generation + generation_duration < t

\* Variant: the group count is taken from the grid side, not the particle count
DispatchGroupsByGrid(n, wg) == grid_size \div wg

\* self.num_instances / WORKGROUP_SIZE
DispatchGroups(n, wg) == n \div wg

\* Variant: the swap is dropped
NoSwap(a) == a

\* Variant: a swap without a temporary, a[0] = a[1]; a[1] = a[0]
SwapWithoutTemp(a) == [i \in {0, 1} |-> a[1]]

\* slice::swap(0, 1) on a two-element array
Swap01(a) == [i \in {0, 1} |-> a[1 - i]]

\* Variant: the mapped range is read before the device is polled
TickEventsReadBeforeWait ==
    << "dispatch", "copy", "submit", "map_async", "read", "poll_wait",
       "set_last_generation", "swap" >>

\* what one tick does on the host, in program order
TickEvents == << "dispatch", "copy", "submit", "map_async", "poll_wait",
                 "read", "set_last_generation", "swap" >>

UpdateTick(delay) ==
    LET bg == bind_group[0]
        groups == DispatchGroups(num_instances, workgroup_size)
        invocations == groups * workgroup_size
        tick == dispatches + 1
    IN  /\ now + delay <= MaxTime
        /\ written_by' = [written_by EXCEPT
                            ![bg.binding1] = KernelWrite(@, invocations, tick)]
        /\ debug_buffer' = KernelDebug(debug_buffer, invocations, tick)
        /\ debug_data' = debug_buffer'
        /\ now' = now + delay
        /\ last_generation' = now'
        /\ instance_buffer' = Swap01(instance_buffer)
        /\ bind_group' = Swap01(bind_group)
        /\ dispatches' = tick
        /\ last_tick' = [events |-> TickEvents,
                         groups |-> groups,
                         read |-> bg.binding0,
                         write |-> bg.binding1,
                         current_before |-> instance_buffer[0],
                         slot_writes |-> KernelSlotWrites(num_instances,
                                                          invocations)]
        /\ last_update' = [call |-> now, returned |-> now',
                           elapsed |-> now - last_generation,
                           dispatched |-> 1]

\* Variant: the tick clock is restarted outside the interval test
UpdateIdleResetsClock ==
    /\ last_update' = [call |-> now, returned |-> now,
                       elapsed |-> now - last_generation, dispatched |-> 0]
    /\ last_generation' = now
    /\ UNCHANGED << written_by, debug_buffer, debug_data, now,
                    instance_buffer, bind_group, dispatches, last_tick >>

UpdateIdle ==
    /\ last_update' = [call |-> now, returned |-> now,
                       elapsed |-> now - last_generation, dispatched |-> 0]
    /\ UNCHANGED << written_by, debug_buffer, debug_data, now, last_generation,
                    instance_buffer, bind_group, dispatches, last_tick >>

Update ==
    /\ status = "running"
    /\ IF IntervalElapsed(now)
       THEN \E delay \in 0..MaxPollDelay : UpdateTick(delay)
       ELSE UpdateIdle
    /\ spaced' = (spaced /\ now - last_update.call < generation_duration)
    /\ UNCHANGED << config_vars, status, num_instances, springs, sim_params,
                    initial_contents, generation_duration, render_source >>

(***************************************************************************)
(* InstanceApp::render                                                     *)
(***************************************************************************)
Render ==
    /\ status = "running"
    /\ render_source' = instance_buffer[0]
    /\ UNCHANGED << config_vars, status, num_instances, springs, sim_params,
                    initial_contents, instance_buffer, bind_group,
                    generation_duration, last_generation, written_by,
                    debug_buffer, debug_data, now, dispatches, last_update,
                    last_tick, spaced >>

(***************************************************************************)
(* The host clock                                                          *)
(***************************************************************************)
ClockTick ==
    /\ now < MaxTime
    /\ now' = now + 1
    /\ UNCHANGED << config_vars, status, num_instances, springs, sim_params,
                    initial_contents, instance_buffer, bind_group,
                    generation_duration, last_generation, written_by,
                    debug_buffer, debug_data, dispatches, last_update,
                    last_tick, spaced, render_source >>

Next == Update \/ Render \/ ClockTick

Spec == Init /\ [][Next]_vars

(***************************************************************************)
(* Helpers of the properties                                               *)
(***************************************************************************)
Running == status = "running"

RowOf(index) == index \div grid_size
ColOf(index) == index % grid_size

SpringsOfStiffness(k) == {i \in 1..Len(springs) : springs[i].stiffness = k}

StructuralCount(N) == 2 * N * (N - 1)
ShearCount(N) == 2 * (N - 1) * (N - 1)
BendCount(N) == IF N < 3 THEN 0 ELSE 2 * N * (N - 2)

RECURSIVE SumCoordinate(_, _, _)
\* sum of coordinate axis over the first n particles of a Vec<Instance>
SumCoordinate(instances, axis, n) ==
    IF n = 0 THEN 0
    ELSE instances[n].position[axis] + SumCoordinate(instances, axis, n - 1)

\* number of intervals of length generation_duration that lie wholly before t
IntervalsCrossed(t) == IF t <= 0 THEN 0 ELSE (t - 1) \div generation_duration

\* number of intervals of length generation_duration completed at t
IntervalsCompleted(t) == t \div generation_duration

EventCount(e) ==
    Cardinality({i \in 1..Len(last_tick.events) : last_tick.events[i] = e})

(***************************************************************************)
(* C1: for every grid size N >= 2 the list returned by generate_springs    *)
(* holds 2N(N-1) structural, 2(N-1)^2 shear and 2N(N-2) bend springs (no   *)
(* bend spring when N < 3), and its length is the sum of the three.        *)
(***************************************************************************)
C1_SpringCount ==
    (Running /\ grid_size >= 2) =>
        /\ Cardinality(SpringsOfStiffness(structural_stiffness))
              = StructuralCount(grid_size)
        /\ Cardinality(SpringsOfStiffness(shear_stiffness))
              = ShearCount(grid_size)
        /\ Cardinality(SpringsOfStiffness(bend_stiffness))
              = BendCount(grid_size)
        /\ Len(springs) = StructuralCount(grid_size) + ShearCount(grid_size)
                          + BendCount(grid_size)

C1_Witness ==
    /\ Running
    /\ grid_size = 3
    /\ Len(springs) = 26
    /\ Cardinality(SpringsOfStiffness(bend_stiffness)) = 6

(***************************************************************************)
(* C2: in every tick, the buffer that is current (instance_buffer[0]) when *)
(* the tick starts is not the buffer bound as the kernel's write target    *)
(* (binding 1 of bind_group[0]) of that tick's dispatch.  Every running    *)
(* state can be the start of a tick, and last_tick records the dispatch.   *)
(***************************************************************************)
C2_WriteTargetNeverCurrent ==
    Running =>
        /\ bind_group[0].binding1 # instance_buffer[0]
        /\ dispatches > 0 => last_tick.write # last_tick.current_before

C2_Witness ==
    /\ Running
    /\ dispatches = 2
    /\ last_tick.current_before = "pong"
    /\ last_tick.write = "ping"

(***************************************************************************)
(* C3 as stated: when the update calls are spaced by less than the         *)
(* generation interval, after any sequence of update calls the number of   *)
(* dispatches equals the number of intervals that have been crossed        *)
(* (counting an interval either once it is completed or once it is         *)
(* exceeded).                                                              *)
(***************************************************************************)
C3_DispatchesEqualIntervalsCrossed ==
    (Running /\ spaced /\ last_update.returned = now) =>
        \/ dispatches = IntervalsCrossed(now)
        \/ dispatches = IntervalsCompleted(now)

(***************************************************************************)
(* C3 amended: an update call dispatches exactly when the time since the   *)
(* last completed step exceeds the generation interval, and then exactly   *)
(* once; the number of dispatches never exceeds the number of intervals    *)
(* crossed since construction (it can be smaller, because the tick clock   *)
(* restarts at the time of the dispatch and not at the interval boundary). *)
(***************************************************************************)
C3_Cadence ==
    Running =>
        /\ last_update.dispatched \in {0, 1}
        /\ last_update.dispatched = 1
              <=> last_update.elapsed > generation_duration
        /\ dispatches <= IntervalsCrossed(now)

C3_Witness ==
    /\ Running
    /\ spaced
    /\ last_update.returned = now
    /\ last_update.call > 0
    /\ dispatches >= 1
    /\ dispatches < IntervalsCrossed(now)

(***************************************************************************)
(* C4: between ticks the buffer render binds as instance data              *)
(* (instance_buffer[0]) is the buffer the next dispatch reads (binding 0   *)
(* of bind_group[0]) and is the buffer the most recent dispatch wrote, or  *)
(* the initial buffer when no tick has run.                                *)
(***************************************************************************)
C4_RenderSourceIsReadSource ==
    Running =>
        /\ instance_buffer[0] = bind_group[0].binding0
        /\ instance_buffer[0] = IF dispatches = 0 THEN NewInstanceBuffers[0]
                                                  ELSE last_tick.write

C4_Witness ==
    /\ Running
    /\ dispatches = 1
    /\ instance_buffer[0] = "pong"
    /\ render_source = "pong"
    /\ bind_group[0].binding0 = "pong"

(***************************************************************************)
(* C5: for every grid size >= 1, every spring returned by generate_springs *)
(* has both endpoints inside the grid (< grid_size^2), and the endpoints   *)
(* are grid neighbours of the spring's class: offset (0,1) or (1,0) for a  *)
(* structural spring, (1,1) or (1,-1) for a shear spring, (0,2) or (2,0)   *)
(* for a bend spring; no spring wraps from one row to the next.            *)
(***************************************************************************)
Offset(s) == << RowOf(s.instance_b) - RowOf(s.instance_a),
                ColOf(s.instance_b) - ColOf(s.instance_a) >>

ClassOffsets(k) ==
    IF k = structural_stiffness THEN {<<0, 1>>, <<1, 0>>}
    ELSE IF k = shear_stiffness THEN {<<1, 1>>, <<1, -1>>}
    ELSE {<<0, 2>>, <<2, 0>>}

C5_SpringsInsideGrid ==
    Running =>
        \A i \in 1..Len(springs) :
            /\ springs[i].instance_a < grid_size * grid_size
            /\ springs[i].instance_b < grid_size * grid_size
            /\ Offset(springs[i]) \in ClassOffsets(springs[i].stiffness)

C7_ConfigErrorsFatal ==
    /\ (num_instances % workgroup_size # 0 \/ grid_size < 2) => ~Running
    /\ (Running /\ dispatches > 0) =>
          last_tick.groups * workgroup_size = num_instances

(***************************************************************************)
(* C8: when diagnostics are disabled, a tick performs neither the blocking *)
(* wait nor the read of the diagnostic record.                             *)
(***************************************************************************)
C8_NoWaitWhenDiagnosticsDisabled ==
    (Running /\ ~diagnostics_enabled /\ dispatches > 0) =>
        /\ EventCount("poll_wait") = 0
        /\ EventCount("read") = 0

(***************************************************************************)
(* C9: each tick submits exactly one dispatch, of particle_count /         *)
(* workgroup_size groups; when the particle count is a multiple of the     *)
(* workgroup size, as with the configured GRID_SIZE and WORKGROUP_SIZE,    *)
(* groups * workgroup size equals the particle count = grid_size^2 and     *)
(* every slot of the write buffer is written exactly once by that tick.    *)
(***************************************************************************)
C9_DispatchCoversEveryParticle ==
    /\ (GRID_SIZE * GRID_SIZE) % WORKGROUP_SIZE = 0
    /\ ((GRID_SIZE * GRID_SIZE) \div WORKGROUP_SIZE) * WORKGROUP_SIZE
          = GRID_SIZE * GRID_SIZE
    /\ (Running /\ dispatches > 0) =>
          /\ EventCount("dispatch") = 1
          /\ EventCount("submit") = 1
          /\ last_tick.groups * workgroup_size <= num_instances
          /\ num_instances - last_tick.groups * workgroup_size < workgroup_size
          /\ num_instances % workgroup_size = 0 =>
                /\ last_tick.groups * workgroup_size = num_instances
                /\ num_instances = grid_size * grid_size
                /\ \A i \in 1..num_instances :
                      /\ last_tick.slot_writes[i] = 1
                      /\ written_by[last_tick.write][i] = dispatches

C9_Witness ==
    /\ Running
    /\ dispatches = 2
    /\ grid_size = 2
    /\ workgroup_size = 2
    /\ last_tick.groups = 2
    /\ \A i \in 1..4 : written_by[last_tick.write][i] = 2

(***************************************************************************)
(* C10: generate_grid returns rows * cols particles in row-major order     *)
(* (index = row * cols + col), each with zero velocity and y equal to the  *)
(* displacement, and the grid is centred on the origin in the horizontal   *)
(* plane: the x coordinates sum to zero and so do the z coordinates.       *)
(* Coordinates are doubled in the model.                                   *)
(***************************************************************************)
C10_GridRowMajor ==
    LET grid == initial_contents["ping"]
    IN  /\ Len(grid) = grid_size * grid_size
        /\ \A i \in 1..Len(grid) :
              /\ grid[i].speed = << 0, 0, 0, 0 >>
              /\ grid[i].position[2] = 2 * displacement
              /\ grid[i].position[1]
                    = grid[1].position[1] + 2 * spacing * ColOf(i - 1)
              /\ grid[i].position[3]
                    = grid[1].position[3] + 2 * spacing * RowOf(i - 1)

C10_GridCentered ==
    Running =>
        /\ C10_GridRowMajor
        /\ SumCoordinate(initial_contents["ping"], 1, num_instances) = 0
        /\ SumCoordinate(initial_contents["ping"], 3, num_instances) = 0

(***************************************************************************)
(* C11: every spring returned by generate_springs has one of the six grid  *)
(* offsets between its endpoints, and the offset fixes its class: (0,1) or *)
(* (1,0) is structural with rest length spacing, (1,1) or (1,-1) is shear  *)
(* with rest length spacing * sqrt(2), (0,2) or (2,0) is bend with rest    *)
(* length 2 * spacing; each class carries its own stiffness constant and   *)
(* the three constants are pairwise distinct.                              *)
(***************************************************************************)
StructuralOffsets == {<<0, 1>>, <<1, 0>>}
ShearOffsets == {<<1, 1>>, <<1, -1>>}
BendOffsets == {<<0, 2>>, <<2, 0>>}

C11_SpringClasses ==
    /\ structural_stiffness # shear_stiffness
    /\ shear_stiffness # bend_stiffness
    /\ structural_stiffness # bend_stiffness
    /\ Running =>
          \A i \in 1..Len(springs) :
              LET s == springs[i]
                  o == Offset(s)
              IN  /\ o \in StructuralOffsets \cup ShearOffsets \cup BendOffsets
                  /\ o \in StructuralOffsets =>
                        /\ s.stiffness = structural_stiffness
                        /\ s.rest_length = [scale |-> spacing, root |-> 1]
                  /\ o \in ShearOffsets =>
                        /\ s.stiffness = shear_stiffness
                        /\ s.rest_length = [scale |-> spacing, root |-> 2]
                  /\ o \in BendOffsets =>
                        /\ s.stiffness = bend_stiffness
                        /\ s.rest_length = [scale |-> 2 * spacing, root |-> 1]

C11_Witness ==
    /\ Running
    /\ grid_size = 3
    /\ \A o \in StructuralOffsets \cup ShearOffsets \cup BendOffsets :
          \E i \in 1..Len(springs) : Offset(springs[i]) = o

(***************************************************************************)
(* C12: no step after initialization changes the spring list, the          *)
(* parameter block, the particle count or the generation interval.  A step *)
(* that is not a tick (render, an update before the interval has elapsed,  *)
(* the clock) changes neither the buffer roles, the tick clock, a particle *)
(* buffer nor the diagnostic record; a tick leaves the particle buffer it  *)
(* reads as it was; a render step changes nothing but the render binding.  *)
(***************************************************************************)
C12_Frame ==
    [][ /\ springs' = springs
        /\ sim_params' = sim_params
        /\ num_instances' = num_instances
        /\ generation_duration' = generation_duration
        /\ \A b \in BufferIds : Len(written_by'[b]) = Len(written_by[b])
        /\ dispatches' = dispatches =>
              UNCHANGED << instance_buffer, bind_group, last_generation,
                           written_by, debug_buffer, debug_data >>
        /\ dispatches' # dispatches =>
              written_by'[last_tick'.read] = written_by[last_tick'.read]
        /\ render_source' # render_source =>
              UNCHANGED << instance_buffer, bind_group, last_generation,
                           written_by, debug_buffer, debug_data, dispatches,
                           now, last_update, last_tick >>
      ]_vars

C12_Witness ==
    /\ Running
    /\ dispatches >= 1
    /\ last_update.dispatched = 0
    /\ last_update.call > last_generation
    /\ render_source = instance_buffer[0]
    /\ Len(springs) = 26
    /\ springs = generate_springs(grid_size, spacing)
    /\ sim_params = NewSimParams
    /\ generation_duration = GenerationInterval

(***************************************************************************)
(* C13: within one tick the host performs, each exactly once and in this   *)
(* order: kernel dispatch encoded, diagnostic copy encoded, submit, wait   *)
(* for completion, read of the diagnostic record, last-tick time set,      *)
(* roles flipped.  Hence the dispatch used the roles of before the flip,   *)
(* and the record the host read is the one the tick's kernel wrote.        *)
(***************************************************************************)
EventPosition(e) ==
    CHOOSE i \in 1..Len(last_tick.events) : last_tick.events[i] = e

TickOrder == << "dispatch", "copy", "submit", "poll_wait", "read",
                "set_last_generation", "swap" >>

RolesAfter(k) ==
    IF k % 2 = 0
    THEN /\ instance_buffer = NewInstanceBuffers
         /\ bind_group = NewBindGroups(NewInstanceBuffers)
    ELSE /\ instance_buffer = [i \in {0, 1} |-> NewInstanceBuffers[1 - i]]
         /\ bind_group = [i \in {0, 1} |->
                             NewBindGroups(NewInstanceBuffers)[1 - i]]

IdleUpdateStep ==
    /\ last_update' # last_update
    /\ last_update'.dispatched = 0

C14_RolesAlternate ==
    /\ [](Running =>
            /\ instance_buffer[0] = (IF dispatches % 2 = 1 THEN "pong"
                                                           ELSE "ping")
            /\ RolesAfter(dispatches))
    /\ [][ /\ initial_contents' = initial_contents
           /\ IdleUpdateStep =>
                 UNCHANGED << instance_buffer, bind_group, last_generation >>
         ]_vars

C14_Witness ==
    /\ Running
    /\ dispatches = 2
    /\ instance_buffer = NewInstanceBuffers
    /\ bind_group = NewBindGroups(NewInstanceBuffers)
    /\ last_update.dispatched = 0
    /\ last_update.call > last_generation

(***************************************************************************)
(* C15 as stated: every particle has at most 8 incident springs, a spring  *)
(* being incident when the particle is its instance_a or its instance_b.   *)
(***************************************************************************)
Incident(p) ==
    {i \in 1..Len(springs) :
        springs[i].instance_a = p \/ springs[i].instance_b = p}

Particles == 0..(num_instances - 1)

C15_DegreeAtMostEight ==
    Running => \A p \in Particles : Cardinality(Incident(p)) <= 8

(***************************************************************************)
(* C15 amended: every particle has at most 12 incident springs, at most 4  *)
(* of each class (an interior particle two cells away from every border    *)
(* has exactly 4 structural, 4 shear and 4 bend springs); 12 is below the  *)
(* capacity of the diagnostic record's per-spring array.                   *)
(***************************************************************************)
C15_DegreeAtMostTwelve ==
    /\ 12 <= MaxDebugSprings
    /\ Running =>
          LET structural == SpringsOfStiffness(structural_stiffness)
              shear == SpringsOfStiffness(shear_stiffness)
              bend == SpringsOfStiffness(bend_stiffness)
          IN  \A p \in Particles :
                  LET incident == Incident(p)
                  IN  /\ Cardinality(incident) <= 12
                      /\ Cardinality(incident \cap structural) <= 4
                      /\ Cardinality(incident \cap shear) <= 4
                      /\ Cardinality(incident \cap bend) <= 4

C15_Witness ==
    /\ Running
    /\ grid_size = 5
    /\ Cardinality(Incident(12)) = 12
    /\ Cardinality(Incident(12) \cap SpringsOfStiffness(bend_stiffness)) = 4
    /\ Cardinality(Incident(0)) = 5

(***************************************************************************)
(* C16: for every grid size N >= 2 the spring list is a simple undirected  *)
(* graph: every spring has instance_a < instance_b, and no two springs of  *)
(* the list, of whatever class, join the same pair of particles.           *)
(***************************************************************************)
EndpointPairs ==
    {{springs[i].instance_a, springs[i].instance_b} : i \in 1..Len(springs)}

C16_SimpleGraph ==
    (Running /\ grid_size >= 2) =>
        /\ \A i \in 1..Len(springs) :
              springs[i].instance_a < springs[i].instance_b
        /\ Cardinality(EndpointPairs) = Len(springs)

C16_Witness ==
    /\ Running
    /\ grid_size = 4
    /\ Len(springs) = 58
    /\ Cardinality(EndpointPairs) = 58
    /\ {3, 6} \in EndpointPairs
    /\ {3, 4} \notin EndpointPairs

(***************************************************************************)
(* C17: with the grid and the springs generated from the same grid size    *)
(* and spacing, as new does, the endpoints of every generated spring are   *)
(* particles of the grid and start exactly rest_length apart: squared      *)
(* distance spacing^2 for a structural, 2 * spacing^2 for a shear and      *)
(* 4 * spacing^2 for a bend spring.  Coordinates are doubled in the model, *)
(* so squared distances are four times the true ones.                      *)
(***************************************************************************)
Square(x) == x * x

\* four times the squared distance between particles a and b of a buffer
SquaredDistance4(contents, a, b) ==
    Square(contents[b + 1].position[1] - contents[a + 1].position[1])
    + Square(contents[b + 1].position[2] - contents[a + 1].position[2])
    + Square(contents[b + 1].position[3] - contents[a + 1].position[3])

\* the square of a rest length scale * sqrt(root)
SquaredRest(rest) == Square(rest.scale) * rest.root

ClassSquaredRest(k) ==
    IF k = structural_stiffness THEN Square(spacing)
    ELSE IF k = shear_stiffness THEN 2 * Square(spacing)
    ELSE 4 * Square(spacing)

AtRest(s) ==
    /\ s.instance_a < num_instances
    /\ s.instance_b < num_instances
    /\ SquaredRest(s.rest_length) = ClassSquaredRest(s.stiffness)
    /\ \A b \in BufferIds :
          SquaredDistance4(initial_contents[b], s.instance_a, s.instance_b)
             = 4 * SquaredRest(s.rest_length)

C17_InitialEquilibrium ==
    Running => \A i \in 1..Len(springs) : AtRest(springs[i])

====
